---------------------------- MODULE Spec2Model ----------------------------
(***************************************************************************)
(* A model of app_cloud.py, the Streamlit case-study processor: the upload *)
(* loop (extract, save, analyze, create the deck, zip, download) and the   *)
(* post-processing and template replacement done by create_case_ppt.       *)
(*                                                                         *)
(* A Python str is a sequence of one-character strings, so that strip,     *)
(* split, join and replace are computed character by character as CPython  *)
(* computes them.                                                          *)
(***************************************************************************)
EXTENDS Integers, Sequences, FiniteSets, TLC

VARIABLES
    pc,             \* position of the script, or of the call of create_case_ppt
    uploaded_files, \* the batch handed over by st.file_uploader
    idx,            \* index of the file the upload loop is at
    texts,          \* local of the loop: extract_text_from_ppt's result
    analysis_json,  \* local of the loop: analyze_case's result
    out_ppt,        \* local of the loop: create_case_ppt's result
    disk,           \* the files under DATA_DIR: path -> content
    ui,             \* what the page shows: messages and download buttons
    exc,            \* the uncaught exception that ended the script
    runs_left,      \* script runs still allowed (the page reruns per upload)
    arg,            \* what create_case_ppt is called with
    ret,            \* its result
    again           \* its result when called on the record it produced

vars == <<pc, uploaded_files, idx, texts, analysis_json, out_ppt, disk, ui,
          exc, runs_left, arg, ret, again>>

---------------------------------------------------------------------------
(* Python str and list primitives                                          *)

\* str.isspace for the characters the model draws (CPython: also \r \v \f)
Whitespace == {" ", "\t", "\n"}

IsSpace(c) == c \in Whitespace

Min(a, b) == IF a < b THEN a ELSE b

\* seq[:n]
Take(seq, n) == SubSeq(seq, 1, Min(n, Len(seq)))

RECURSIVE LStrip(_)
LStrip(s) ==
    IF s # <<>> /\ IsSpace(Head(s)) THEN LStrip(Tail(s)) ELSE s

RECURSIVE RStrip(_)
RStrip(s) ==
    IF s # <<>> /\ IsSpace(s[Len(s)])
    THEN RStrip(SubSeq(s, 1, Len(s) - 1))
    ELSE s

\* str.strip()
Strip(s) == RStrip(LStrip(s))

\* str.split(): the maximal runs of non-whitespace characters
RECURSIVE SplitWsFrom(_, _, _)
SplitWsFrom(s, k, cur) ==
    IF k > Len(s)
    THEN IF cur = <<>> THEN <<>> ELSE <<cur>>
    ELSE IF IsSpace(s[k])
         THEN IF cur = <<>>
              THEN SplitWsFrom(s, k + 1, <<>>)
              ELSE <<cur>> \o SplitWsFrom(s, k + 1, <<>>)
         ELSE SplitWsFrom(s, k + 1, Append(cur, s[k]))

SplitWs(s) == SplitWsFrom(s, 1, <<>>)

\* sep.join(parts)
RECURSIVE Join(_, _)
Join(sep, parts) ==
    IF parts = <<>> THEN <<>>
    ELSE IF Len(parts) = 1 THEN parts[1]
    ELSE parts[1] \o sep \o Join(sep, Tail(parts))

\* s[k:].startswith(d), k counted from 1
MatchAt(s, d, k) ==
    /\ k + Len(d) - 1 <= Len(s)
    /\ \A j \in 1..Len(d) : s[k + j - 1] = d[j]

\* d in s
Contains(s, d) == \E k \in 1..(Len(s) + 1) : MatchAt(s, d, k)

\* s.split(d) for a non-empty d: cut at the occurrences of d found left to
\* right without overlap
RECURSIVE SplitOnFrom(_, _, _, _)
SplitOnFrom(s, d, k, cur) ==
    IF k > Len(s) THEN <<cur>>
    ELSE IF MatchAt(s, d, k)
         THEN <<cur>> \o SplitOnFrom(s, d, k + Len(d), <<>>)
         ELSE SplitOnFrom(s, d, k + 1, Append(cur, s[k]))

SplitOn(s, d) == SplitOnFrom(s, d, 1, <<>>)

\* s.replace(old, new) for a non-empty old
RECURSIVE ReplaceFrom(_, _, _, _)
ReplaceFrom(s, old, new, k) ==
    IF k > Len(s) THEN <<>>
    ELSE IF MatchAt(s, old, k)
         THEN new \o ReplaceFrom(s, old, new, k + Len(old))
         ELSE <<s[k]>> \o ReplaceFrom(s, old, new, k + 1)

\* s.replace(old, new); CPython puts new between all characters when old
\* is empty
RECURSIVE Interleave(_, _)
Interleave(s, new) ==
    IF s = <<>> THEN new ELSE new \o <<Head(s)>> \o Interleave(Tail(s), new)

Replace(s, old, new) ==
    IF old = <<>> THEN Interleave(s, new) ELSE ReplaceFrom(s, old, new, 1)

UpperToLower ==
    [c \in {"A", "B", "C", "D", "E", "F", "G", "H", "I", "J", "K", "L", "M",
            "N", "O", "P", "Q", "R", "S", "T", "U", "V", "W", "X", "Y", "Z"}
       |-> CASE c = "A" -> "a" [] c = "B" -> "b" [] c = "C" -> "c"
             [] c = "D" -> "d" [] c = "E" -> "e" [] c = "F" -> "f"
             [] c = "G" -> "g" [] c = "H" -> "h" [] c = "I" -> "i"
             [] c = "J" -> "j" [] c = "K" -> "k" [] c = "L" -> "l"
             [] c = "M" -> "m" [] c = "N" -> "n" [] c = "O" -> "o"
             [] c = "P" -> "p" [] c = "Q" -> "q" [] c = "R" -> "r"
             [] c = "S" -> "s" [] c = "T" -> "t" [] c = "U" -> "u"
             [] c = "V" -> "v" [] c = "W" -> "w" [] c = "X" -> "x"
             [] c = "Y" -> "y" [] c = "Z" -> "z"]

\* str.lower(), ASCII letters
Lower(s) ==
    [k \in 1..Len(s) |->
        IF s[k] \in DOMAIN UpperToLower THEN UpperToLower[s[k]] ELSE s[k]]

\* list(dict.fromkeys(seq)): the first occurrence of each element, in order
RECURSIVE DictFromKeys(_)
DictFromKeys(seq) ==
    IF seq = <<>> THEN <<>>
    ELSE LET init == DictFromKeys(SubSeq(seq, 1, Len(seq) - 1))
             last == seq[Len(seq)]
         IN  IF \E k \in 1..Len(init) : init[k] = last
             THEN init
             ELSE Append(init, last)

\* while len(seq) < n: seq.append("")
RECURSIVE PadTo(_, _)
PadTo(seq, n) == IF Len(seq) < n THEN PadTo(Append(seq, <<>>), n) ELSE seq

\* dict.get(key, default)
DictGet(d, key, default) == IF key \in DOMAIN d THEN d[key] ELSE default

\* x or default, for a str or a list
OrElse(x, default) == IF x = <<>> THEN default ELSE x

---------------------------------------------------------------------------
(* create_case_ppt: post-processing                                        *)

CaseStudy == <<"C", "a", "s", "e", " ", "S", "t", "u", "d", "y">>
DotSpace == <<".", " ">>
Space == <<" ">>

\* SanitizeName with the cut at 5 tokens instead of 6
SanitizeNameFiveTokens(raw) ==
    LET name == Replace(Replace(Strip(raw), <<"(">>, <<>>), <<")">>, <<>>)
    IN  OrElse(Join(Space, Take(SplitWs(name), 5)), CaseStudy)

\* lines 118-120
SanitizeName(raw) ==
    LET name == Replace(Replace(Strip(raw), <<"(">>, <<>>), <<")">>, <<>>)
    IN  OrElse(Join(Space, Take(SplitWs(name), 6)), CaseStudy)

\* CapSentences keeping 3 segments instead of 4
CapSentencesKeepThree(text_val) ==
    LET sentences == SplitOn(text_val, DotSpace)
    IN  Strip(IF Len(sentences) > 4
              THEN Join(DotSpace, Take(sentences, 3))
              ELSE text_val)

\* lines 123-127, the body of the loop over challenge, solution, results
CapSentences(text_val) ==
    LET sentences == SplitOn(text_val, DotSpace)
    IN  Strip(IF Len(sentences) > 4
              THEN Join(DotSpace, Take(sentences, 4))
              ELSE text_val)

\* lines 132-133
CleanTag(tag) ==
    Join(Space, Take(SplitWs(Strip(Replace(tag, <<"#">>, <<>>))), 3))

\* lines 131-135: the cleaned tags that are not empty, in order
RECURSIVE CleanTagLoop(_)
CleanTagLoop(hashtags) ==
    IF hashtags = <<>> THEN <<>>
    ELSE LET tag == CleanTag(Head(hashtags))
         IN  (IF tag # <<>> THEN <<tag>> ELSE <<>>)
                 \o CleanTagLoop(Tail(hashtags))

\* lines 129-138
CleanHashtags(raw) == PadTo(CleanTagLoop(Take(DictFromKeys(raw), 3)), 3)

\* line 144
CleanBc(x) == Strip(Join(Space, Take(SplitWs(x), 2)))

\* lines 143-147: the loop, from element k on, with the set seen and the
\* list clean_bcs built so far
RECURSIVE BcLoop(_, _, _, _)
BcLoop(bcs, k, seen, clean_bcs) ==
    IF k > Len(bcs) THEN clean_bcs
    ELSE LET item == CleanBc(bcs[k])
         IN  IF item # <<>> /\ Lower(item) \notin seen
             THEN BcLoop(bcs, k + 1, seen \cup {Lower(item)},
                         Append(clean_bcs, item))
             ELSE BcLoop(bcs, k + 1, seen, clean_bcs)

\* the loop with seen holding the items as written, not lowered
RECURSIVE BcLoopCaseSensitive(_, _, _, _)
BcLoopCaseSensitive(bcs, k, seen, clean_bcs) ==
    IF k > Len(bcs) THEN clean_bcs
    ELSE LET item == CleanBc(bcs[k])
         IN  IF item # <<>> /\ item \notin seen
             THEN BcLoopCaseSensitive(bcs, k + 1, seen \cup {item},
                                      Append(clean_bcs, item))
             ELSE BcLoopCaseSensitive(bcs, k + 1, seen, clean_bcs)

\* CleanBcs telling "Risk" from "risk"
CleanBcsCaseSensitive(raw) ==
    Take(PadTo(BcLoopCaseSensitive(raw, 1, {}, <<>>), 5), 5)

\* lines 140-150
CleanBcs(raw) == Take(PadTo(BcLoop(raw, 1, {}, <<>>), 5), 5)

\* the keys create_case_ppt stores into data before the replacement: lines
\* 120 and 127
KeysStored == {"case_study_name", "challenge", "solution", "results"}

\* KeysSubscripted had line 156 read data["category"]
KeysSubscriptedWithCategory == {"case_study_name", "category"}

\* the keys create_case_ppt reads as data[key], which raises KeyError for a
\* key that is not in the dict: lines 155 and 170
KeysSubscripted == {"case_study_name"}

\* the keys read with data.get(key, default): lines 118, 123, 129, 140 and
\* 156-160
Keys ==
    {"case_study_name", "category", "function", "challenge", "solution",
     "results", "business_categories", "hashtags"}

\* lines 118-150: data as updated, and the locals hashtags and clean_bcs
PostProcess(data) ==
    [data |->
        [k \in DOMAIN data \cup KeysStored |->
            IF k = "case_study_name"
            THEN SanitizeName(DictGet(data, "case_study_name", <<>>))
            ELSE IF k \in {"challenge", "solution", "results"}
                 THEN CapSentences(DictGet(data, k, <<>>))
                 ELSE data[k]],
     hashtags |->
        CleanHashtags(OrElse(DictGet(data, "hashtags", <<>>), <<>>)),
     clean_bcs |->
        CleanBcs(OrElse(DictGet(data, "business_categories", <<>>), <<>>))]

---------------------------------------------------------------------------
(* create_case_ppt: the replacement in the template                        *)

\* lines 155-168: the calls of replace_in_shape made for each shape, in
\* order, as <<placeholder, value>>
PlaceholderCalls(pp) ==
    << <<<<"I", "n", "s", "e", "r", "t", " ", "n", "a", "m", "e", " ", "o", "f", " ", "c", "a", "s", "e", " ", "s", "t", "u", "d", "y">>, pp.data["case_study_name"]>>,
       <<<<"I", "n", "s", "e", "r", "t", " ", "C", "a", "t", "e", "g", "o", "r", "y">>, DictGet(pp.data, "category", <<>>)>>,
       <<<<"I", "n", "s", "e", "r", "t", " ", "F", "u", "n", "c", "t", "i", "o", "n">>, DictGet(pp.data, "function", <<>>)>>,
       <<<<"I", "n", "s", "e", "r", "t", " ", "C", "h", "a", "l", "l", "e", "n", "g", "e", " ", "H", "e", "r", "e">>, DictGet(pp.data, "challenge", <<>>)>>,
       <<<<"I", "n", "s", "e", "r", "t", " ", "S", "o", "l", "u", "t", "i", "o", "n", " ", "H", "e", "r", "e">>, DictGet(pp.data, "solution", <<>>)>>,
       <<<<"I", "n", "s", "e", "r", "t", " ", "R", "e", "s", "u", "l", "t", "s", " ", "H", "e", "r", "e">>, DictGet(pp.data, "results", <<>>)>>,
       <<<<"T", "a", "g", "O", "n", "e">>, pp.hashtags[1]>>,
       <<<<"T", "a", "g", "T", "w", "o">>, pp.hashtags[2]>>,
       <<<<"T", "a", "g", "T", "h", "r", "e", "e">>, pp.hashtags[3]>>,
       <<<<"B", "u", "s", "i", "n", "e", "s", "s", " ", "C", "a", "t", "e", "g", "o", "r", "y", " ", "1">>, pp.clean_bcs[1]>>,
       <<<<"B", "u", "s", "i", "n", "e", "s", "s", " ", "C", "a", "t", "e", "g", "o", "r", "y", " ", "2">>, pp.clean_bcs[2]>>,
       <<<<"B", "u", "s", "i", "n", "e", "s", "s", " ", "C", "a", "t", "e", "g", "o", "r", "y", " ", "3">>, pp.clean_bcs[3]>>,
       <<<<"B", "u", "s", "i", "n", "e", "s", "s", " ", "C", "a", "t", "e", "g", "o", "r", "y", " ", "4">>, pp.clean_bcs[4]>>,
       <<<<"B", "u", "s", "i", "n", "e", "s", "s", " ", "C", "a", "t", "e", "g", "o", "r", "y", " ", "5">>, pp.clean_bcs[5]>> >>

\* lines 104-105, for one run's text
ReplaceInRun(text, placeholder, value) ==
    IF Contains(text, placeholder)
    THEN Replace(text, placeholder, value)
    ELSE text

\* replace_in_shape, lines 97-107: a shape is [has_text_frame, runs], runs
\* being the texts of the runs of its paragraphs in order
ReplaceInShape(shape, placeholder, value) ==
    IF ~shape.has_text_frame \/ placeholder = <<>>
    THEN shape
    ELSE [shape EXCEPT !.runs =
            [r \in DOMAIN @ |-> ReplaceInRun(@[r], placeholder, value)]]

\* lines 155-168 for one shape: the calls from the k-th on
RECURSIVE ReplaceAllInShape(_, _, _)
ReplaceAllInShape(shape, calls, k) ==
    IF k > Len(calls) THEN shape
    ELSE ReplaceAllInShape(
             ReplaceInShape(shape, calls[k][1], calls[k][2]), calls, k + 1)

\* lines 153-168: prs is the sequence of slides, a slide the sequence of
\* its shapes
Populate(prs, pp) ==
    [s \in DOMAIN prs |->
        [h \in DOMAIN prs[s] |->
            ReplaceAllInShape(prs[s][h], PlaceholderCalls(pp), 1)]]

\* line 170, the file name within folder
OutFileName(pp) ==
    <<"B", "I", "P", "_", "M", "C", "G", "_", "C", "a", "s", "e", " ", "S", "t", "u", "d", "y", "_">> \o pp.data["case_study_name"] \o <<".", "p", "p", "t", "x">>

\* analyze_case returns a str; json.loads (line 113) either raises or
\* gives the object: [json |-> whether it parses, obj |-> the dict]
JsonLoads(analysis) == analysis.obj

\* create_case_ppt, lines 110-172, on the template as loaded from TEMPLATE:
\* what it raises, and the presentation and the file name it saves
CreateCasePpt(analysis, template) ==
    IF ~analysis.json
    THEN [raised |-> "JSONDecodeError"]
    ELSE LET data == JsonLoads(analysis)
             pp == PostProcess(data)
         IN  IF \E k \in KeysSubscripted : k \notin DOMAIN pp.data
             THEN [raised |-> "KeyError"]
             ELSE [raised |-> "none",
                   data |-> pp.data,
                   hashtags |-> pp.hashtags,
                   clean_bcs |-> pp.clean_bcs,
                   prs |-> Populate(template, pp),
                   out_file |-> OutFileName(pp)]

\* the record the replacement inserts: the eight fields as read at lines
\* 155-168
Sanitized(r) ==
    [k \in Keys |->
        IF k = "hashtags" THEN r.hashtags
        ELSE IF k = "business_categories" THEN r.clean_bcs
        ELSE DictGet(r.data, k, <<>>)]

---------------------------------------------------------------------------
(* Inputs of create_case_ppt: the model's response and the template        *)

MaxNameLen == 5
MaxTextLen == 8
MaxTags == 4
MaxBcTail == 3
MaxRuns == 2

\* the strings over chars of length at most n
Strings(chars, n) == UNION {[1..k -> chars] : k \in 0..n}

\* a response that parses to the dict obj
Json(obj) == [json |-> TRUE, obj |-> obj]

\* a response that json.loads rejects
NotJson == [json |-> FALSE, obj |-> <<>>]

\* a response with all eight keys
BaseRecord ==
    [k \in Keys |->
        CASE k = "case_study_name" -> <<"D", "a", "t", "a", " ", "M", "i", "g", "r", "a", "t", "i", "o", "n", " ", "O", "v", "e", "r", "h", "a", "u", "l">>
          [] k = "category" -> <<"R", "i", "s", "k">>
          [] k = "function" -> <<"P", "M", "O">>
          [] k = "challenge" -> <<"O", "l", "d", ".", " ">>
          [] k = "solution" -> <<"N", "e", "w">>
          [] k = "results" -> <<"a", ".", " ", "b", ".", " ", "c", ".", " ", "d", ".", " ", "e", ".", " ", "f">>
          [] k = "business_categories" -> <<<<"D", "a", "t", "a">>, <<"R", "i", "s", "k", " ", "C", "o", "n", "t", "r", "o", "l", "s">>>>
          [] k = "hashtags" -> <<<<"C", "l", "o", "u", "d">>, <<"D", "a", "t", "a", " ", "L", "a", "k", "e">>, <<"A", "I">>>>]

With(key, value) == [BaseRecord EXCEPT ![key] = value]

RawNameC5 == <<" ", " ", "(", "G", "l", "o", "b", "a", "l", ")", " ", "R", "i", "s", "k", " ", "P", "r", "o", "g", "r", "a", "m", " ", "R", "o", "l", "l", "o", "u", "t", " ", "E", "x", "t", "e", "n", "d", "e", "d", " ", "N", "a", "m", "e">>

NameInputs ==
    Strings({"a", " ", "(", ")"}, MaxNameLen)
        \cup {RawNameC5, <<"a", " ", "b", " ", "c", " ", "d", " ", "e", " ", "f", " ", "g", " ", "h">>, <<" ", "(", "x", ")", "\t", "y", " ", " ", "(", "z", ")", " ">>}

TextInputs == Strings({"a", ".", " "}, MaxTextLen)

TagEntries ==
    {<<>>, <<"a">>, <<"#", "a">>, <<" ", "a", " ">>, <<"b">>, <<"#", " ", "#">>, <<"a", " ", "b", " ", "c", " ", "d">>}

TagInputs == Strings(TagEntries, MaxTags)

BcEntries ==
    {<<>>, <<"a">>, <<"A">>, <<"b">>, <<"a", " ", " ", "b", " ", "c">>, <<"a", " ", "B">>, <<" ">>, <<"D">>, <<"e">>}

BcPrefix == <<<<"c">>, <<"d">>, <<"C", " ", "d">>, <<"c", " ", "D", " ", "e">>>>

BcInputs ==
    Strings(BcEntries, MaxBcTail)
        \cup {BcPrefix \o tail : tail \in Strings(BcEntries, MaxBcTail)}

\* a template with no placeholder of its own interest: a title, a tag and
\* a picture
DefaultTemplate ==
    << << [has_text_frame |-> TRUE,
           runs |-> <<<<"I", "n", "s", "e", "r", "t", " ", "n", "a", "m", "e", " ", "o", "f", " ", "c", "a", "s", "e", " ", "s", "t", "u", "d", "y">>>>],
          [has_text_frame |-> TRUE, runs |-> <<<<"#">>, <<"T", "a", "g", "O", "n", "e">>>>],
          [has_text_frame |-> FALSE, runs |-> <<>>] >> >>

RunTexts ==
    {<<"I", "n", "s", "e", "r", "t", " ", "n", "a", "m", "e", " ", "o", "f", " ", "c", "a", "s", "e", " ", "s", "t", "u", "d", "y">>, <<"I", "n", "s", "e", "r", "t", " ", "C", "a", "t", "e", "g", "o", "r", "y">>, <<"T", "a", "g", "O", "n", "e">>,
     <<"T", "a", "g", "T", "w", "o">>, <<"a", " ", "T", "a", "g", "O", "n", "e", " ", "b", " ", "T", "a", "g", "O", "n", "e">>, <<"T", "a", "g", "T", "a", "g", "O", "n", "e", "T", "w", "o">>, <<"A", "g", "e", "n", "d", "a">>, <<>>}

\* one slide: a shape of up to MaxRuns runs, then a picture
Templates ==
    { << << [has_text_frame |-> TRUE, runs |-> rs],
            [has_text_frame |-> FALSE, runs |-> <<>>] >> >>
        : rs \in Strings(RunTexts, MaxRuns) }

PopulateRecords ==
    { [BaseRecord EXCEPT !["case_study_name"] = n,
                         !["category"] = c,
                         !["hashtags"] = h]
        : n \in {<<"D", "a", "t", "a", " ", "M", "i", "g", "r", "a", "t", "i", "o", "n", " ", "O", "v", "e", "r", "h", "a", "u", "l">>, <<"I", "n", "s", "e", "r", "t", " ", "C", "a", "t", "e", "g", "o", "r", "y">>},
          c \in {<<"R", "i", "s", "k">>, <<>>},
          h \in {<<<<"C", "l", "o", "u", "d">>, <<"A", "I">>>>, <<<<"T", "a", "g", "T", "w", "o">>, <<"x", " ", "T", "a", "g", "T", "h", "r", "e", "e">>>>} }

\* a call of create_case_ppt on the response r and the default template
Call(r) == [analysis |-> Json(r), template |-> DefaultTemplate]

NameCalls == {Call(With("case_study_name", n)) : n \in NameInputs}

TextSamples ==
    {<<>>, <<" ", "a", ".", " ", "b", " ">>, <<"a", ".", " ", "b", ".", " ", "c", ".", " ", "d">>, <<"a", ".", " ", "b", ".", " ", "c", ".", " ", "d", ".", " ">>, <<".", " ", ".", " ", ".", " ", ".", " ", ".", " ">>,
     <<"a", ".", " ", "b", ".", " ", "c", ".", " ", "d", ".", " ", "e", ".", " ", "f">>, <<" ", "a", ".", "b", ".", " ", "c", ".", ".", " ", "d", ".", " ", "e", " ", ".", " ", "f", ".", " ">>}

TextCalls ==
    {Call(With("challenge", t)) : t \in TextInputs}
        \cup {Call([BaseRecord EXCEPT ![f] = t]) :
                  f \in {"solution", "results"}, t \in TextSamples}

TagCalls == {Call(With("hashtags", h)) : h \in TagInputs}

BcCalls == {Call(With("business_categories", b)) : b \in BcInputs}

\* the responses that lack some of the keys, and one that is no JSON
KeyCalls ==
    {Call([k \in present |-> BaseRecord[k]]) : present \in SUBSET Keys}
        \cup {[analysis |-> NotJson, template |-> DefaultTemplate]}

PopulateCalls ==
    {[analysis |-> Json(r), template |-> t] :
        r \in PopulateRecords, t \in Templates}

---------------------------------------------------------------------------
(* create_case_ppt as a function: called once, and once more on the        *)
(* record it produced                                                      *)

NoException == [type |-> "none", file |-> 0, stage |-> "none"]

EmptyDisk == [folders |-> <<>>, zips |-> <<>>]

InitCreate(calls) ==
    /\ pc = "call"
    /\ arg \in calls
    /\ ret = [raised |-> "none"]
    /\ again = [raised |-> "none"]
    /\ uploaded_files = <<>>
    /\ idx = 0
    /\ texts = <<>>
    /\ analysis_json = NotJson
    /\ out_ppt = <<>>
    /\ disk = EmptyDisk
    /\ ui = <<>>
    /\ exc = NoException
    /\ runs_left = 0

CallCreate ==
    /\ pc = "call"
    /\ ret' = CreateCasePpt(arg.analysis, arg.template)
    /\ pc' = IF ret'.raised = "none" THEN "created" ELSE "raised"
    /\ UNCHANGED <<uploaded_files, idx, texts, analysis_json, out_ppt, disk,
                   ui, exc, runs_left, arg, again>>

CallAgain ==
    /\ pc = "created"
    /\ again' = CreateCasePpt(Json(Sanitized(ret)), arg.template)
    /\ pc' = "recreated"
    /\ UNCHANGED <<uploaded_files, idx, texts, analysis_json, out_ppt, disk,
                   ui, exc, runs_left, arg, ret>>

NextCreate == CallCreate \/ CallAgain

InitName == InitCreate(NameCalls)
SpecName == InitName /\ [][NextCreate]_vars

InitText == InitCreate(TextCalls)
SpecText == InitText /\ [][NextCreate]_vars

InitTags == InitCreate(TagCalls)
SpecTags == InitTags /\ [][NextCreate]_vars

InitBcs == InitCreate(BcCalls)
SpecBcs == InitBcs /\ [][NextCreate]_vars

InitKeys == InitCreate(KeyCalls)
SpecKeys == InitKeys /\ [][NextCreate]_vars

InitPopulate == InitCreate(PopulateCalls)
SpecPopulate == InitPopulate /\ [][NextCreate]_vars

---------------------------------------------------------------------------
(* The script: the upload loop, lines 191-218                              *)

MaxFiles == 3
MaxReruns == 1

\* line 192: uploaded_files[:20]
UploadCap == 20

\* an uploaded presentation: a slide is the sequence of its shapes, a shape
\* [has_text, text]
Deck(title) ==
    << << [has_text |-> TRUE, text |-> title],
          [has_text |-> FALSE, text |-> <<>>],
          [has_text |-> TRUE, text |-> <<>>] >>,
       << [has_text |-> TRUE, text |-> <<"B", "I", "P">>] >> >>

\* the uploads the batch is drawn from: name, whether python-pptx can open
\* the bytes, and the slides the bytes hold
Files ==
    {[name |-> <<"a", ".", "p", "p", "t", "x">>, valid |-> TRUE, slides |-> Deck(<<"K", "Y", "C">>)],
     [name |-> <<"a", ".", "p", "p", "t", "x">>, valid |-> TRUE, slides |-> Deck(<<"A", "M", "L">>)],
     [name |-> <<"b", ".", "v", "2", ".", "p", "p", "t", "x">>, valid |-> TRUE, slides |-> Deck(<<"K", "Y", "C">>)],
     [name |-> <<"a", ".", "p", "p", "t", "x">>, valid |-> FALSE, slides |-> <<>>]}

Batches == Strings(Files, MaxFiles)

\* what the model may answer
Responses ==
    {Json(BaseRecord), Json(With("case_study_name", <<"K", "Y", "C", " ", "(", "R", "e", "m", "e", "d", "i", "a", "t", "i", "o", "n", ")">>)),
     NotJson}

\* TEMPLATE as Presentation(TEMPLATE) loads it, line 112
TemplateFile ==
    << << [has_text_frame |-> TRUE,
           runs |-> <<<<"I", "n", "s", "e", "r", "t", " ", "n", "a", "m", "e", " ", "o", "f", " ", "c", "a", "s", "e", " ", "s", "t", "u", "d", "y">>>>],
          [has_text_frame |-> TRUE, runs |-> <<<<"#">>, <<"T", "a", "g", "O", "n", "e">>>>],
          [has_text_frame |-> FALSE, runs |-> <<>>] >>,
       << [has_text_frame |-> TRUE,
           runs |-> <<<<"I", "n", "s", "e", "r", "t", " ", "C", "h", "a", "l", "l", "e", "n", "g", "e", " ", "H", "e", "r", "e">>>>] >> >>

\* the texts of the shapes of one slide that have a text, lines 29-31
RECURSIVE ShapeTexts(_)
ShapeTexts(shapes) ==
    IF shapes = <<>> THEN <<>>
    ELSE (IF Head(shapes).has_text THEN <<Head(shapes).text>> ELSE <<>>)
             \o ShapeTexts(Tail(shapes))

\* extract_text_from_ppt, lines 24-32
RECURSIVE ExtractTextFromPpt(_)
ExtractTextFromPpt(slides) ==
    IF slides = <<>> THEN <<>>
    ELSE ShapeTexts(Head(slides)) \o ExtractTextFromPpt(Tail(slides))

\* os.path.splitext(name)[0], line 193: name up to its last dot, the dots
\* name starts with not counted
CaseName(name) ==
    LET dots == {k \in 1..Len(name) :
                    /\ name[k] = "."
                    /\ \E j \in 1..(k - 1) : name[j] # "."}
    IN  IF dots = {} THEN name
        ELSE SubSeq(name, 1, (CHOOSE k \in dots : \A j \in dots : j <= k) - 1)

\* d with d[key] = value, as a dict or a directory takes an entry
Put(d, key, value) ==
    [k \in DOMAIN d \cup {key} |-> IF k = key THEN value ELSE d[k]]

\* the files of the folder of case_name, none when it does not exist
FolderOf(case_name) == DictGet(disk.folders, case_name, <<>>)

\* save_extracted, lines 35-53: the folder afterwards
SaveExtracted(case_name, txts, original_file) ==
    Put(Put(Put(FolderOf(case_name),
                <<"r", "a", "w", ".", "j", "s", "o", "n">>, [text |-> txts]),
            <<"p", "a", "r", "s", "e", "d", ".", "c", "s", "v">>, [content |-> txts]),
        <<"O", "r", "i", "g", "i", "n", "a", "l", " ", "-", " ">> \o original_file.name, original_file.slides)

CurrentFile == uploaded_files[idx]

\* the loop goes on to the next file of uploaded_files[:20], or ends
Advance ==
    /\ idx' = idx + 1
    /\ pc' = IF idx + 1 > Len(Take(uploaded_files, UploadCap))
             THEN "done"
             ELSE "extract"

Raise(type, stage) ==
    /\ pc' = "raised"
    /\ exc' = [type |-> type, file |-> idx, stage |-> stage]

Init ==
    /\ uploaded_files \in Batches
    /\ pc = IF uploaded_files = <<>> THEN "done" ELSE "extract"
    /\ idx = 1
    /\ texts = <<>>
    /\ analysis_json = NotJson
    /\ out_ppt = <<>>
    /\ disk = EmptyDisk
    /\ ui = <<>>
    /\ exc = NoException
    /\ runs_left = MaxReruns
    /\ arg = <<>>
    /\ ret = [raised |-> "none"]
    /\ again = [raised |-> "none"]

\* lines 193-197: Presentation(f) raises on bytes that are no presentation
Extract ==
    /\ pc = "extract"
    /\ ui' = Append(ui, [kind |-> "write", file |-> idx,
                         case_name |-> CaseName(CurrentFile.name)])
    /\ IF CurrentFile.valid
       THEN /\ texts' = ExtractTextFromPpt(CurrentFile.slides)
            /\ pc' = "save"
            /\ exc' = exc
       ELSE /\ Raise("PackageNotFoundError", "extract")
            /\ texts' = texts
    /\ UNCHANGED <<uploaded_files, idx, analysis_json, out_ppt, disk,
                   runs_left, arg, ret, again>>

\* line 200
Save ==
    /\ pc = "save"
    /\ disk' = [disk EXCEPT !.folders =
                  Put(@, CaseName(CurrentFile.name),
                      SaveExtracted(CaseName(CurrentFile.name), texts,
                                    CurrentFile))]
    /\ pc' = "analyze"
    /\ UNCHANGED <<uploaded_files, idx, texts, analysis_json, out_ppt, ui,
                   exc, runs_left, arg, ret, again>>

\* line 203: the model answers
AnalyzeReturns ==
    /\ pc = "analyze"
    /\ \E response \in Responses : analysis_json' = response
    /\ pc' = "create"
    /\ UNCHANGED <<uploaded_files, idx, texts, out_ppt, disk, ui, exc,
                   runs_left, arg, ret, again>>

\* line 203: the call of the model raises (network, quota, timeout)
AnalyzeRaises ==
    /\ pc = "analyze"
    /\ Raise("APIError", "analyze")
    /\ UNCHANGED <<uploaded_files, idx, texts, analysis_json, out_ppt, disk,
                   ui, runs_left, arg, ret, again>>

\* line 206
Create ==
    /\ pc = "create"
    /\ LET made == CreateCasePpt(analysis_json, TemplateFile)
           case_name == CaseName(CurrentFile.name)
       IN  IF made.raised = "none"
           THEN /\ disk' = [disk EXCEPT !.folders =
                              Put(@, case_name,
                                  Put(FolderOf(case_name), made.out_file,
                                      made.prs))]
                /\ out_ppt' = made.out_file
                /\ pc' = "zip"
                /\ exc' = exc
           ELSE /\ Raise(made.raised, "create")
                /\ UNCHANGED <<disk, out_ppt>>
    /\ UNCHANGED <<uploaded_files, idx, texts, analysis_json, ui, runs_left,
                   arg, ret, again>>

\* lines 209-218: make_archive packs what the folder holds into
\* <folder>.zip, which the download button then offers
Package ==
    /\ pc = "zip"
    /\ LET case_name == CaseName(CurrentFile.name)
           archive == FolderOf(case_name)
       IN  /\ disk' = [disk EXCEPT !.zips = Put(@, case_name, archive)]
           /\ ui' = ui \o
                 <<[kind |-> "download", file |-> idx,
                    case_name |-> case_name, data |-> archive],
                   [kind |-> "success", file |-> idx,
                    case_name |-> case_name]>>
    /\ Advance
    /\ UNCHANGED <<uploaded_files, texts, analysis_json, out_ppt, exc,
                   runs_left, arg, ret, again>>

\* the page runs the script again from the top on its next interaction,
\* with the same uploads and whatever the earlier run left under DATA_DIR
Rerun ==
    /\ pc \in {"done", "raised"}
    /\ runs_left > 0
    /\ runs_left' = runs_left - 1
    /\ pc' = IF uploaded_files = <<>> THEN "done" ELSE "extract"
    /\ idx' = 1
    /\ ui' = <<>>
    /\ exc' = NoException
    /\ UNCHANGED <<uploaded_files, texts, analysis_json, out_ppt, disk, arg,
                   ret, again>>

Next ==
    \/ Extract
    \/ Save
    \/ AnalyzeReturns
    \/ AnalyzeRaises
    \/ Create
    \/ Package
    \/ Rerun

Spec == Init /\ [][Next]_vars

---------------------------------------------------------------------------
(* Properties                                                              *)

\* file j of the batch has its archive offered in this run
Packaged(j) ==
    \E k \in 1..Len(ui) : ui[k].kind = "download" /\ ui[k].file = j

\* C1: when the model call of one file of a batch of readable files fails
\* (analyze_case raises, or its content is no JSON), every other file of
\* the batch, the later ones included, still gets its archive.
C1_BatchSurvivesModelFailure ==
    (/\ pc = "raised"
     /\ exc.stage \in {"analyze", "create"}
     /\ \A j \in 1..Len(uploaded_files) : uploaded_files[j].valid)
        => \A j \in 1..Len(uploaded_files) : j # exc.file => Packaged(j)

\* C2: the hashtag list create_case_ppt computes has exactly 3 entries and
\* no two of its non-empty entries are equal.
C2_HashtagsThreeAndDistinct ==
    pc = "created" =>
        /\ Len(ret.hashtags) = 3
        /\ \A i, j \in 1..Len(ret.hashtags) :
              (i < j /\ ret.hashtags[i] # <<>>)
                  => ret.hashtags[i] # ret.hashtags[j]

\* the first two whitespace-delimited tokens of x, joined by one space
TwoTokens(x) == Join(Space, Take(SplitWs(x), 2))

\* the positions of raw whose entry is valid (not empty once cut to two
\* tokens) and is not a case-insensitive repeat of an earlier entry
FirstSeen(raw) ==
    {k \in 1..Len(raw) :
        /\ TwoTokens(raw[k]) # <<>>
        /\ \A j \in 1..(k - 1) :
              Lower(TwoTokens(raw[j])) # Lower(TwoTokens(raw[k]))}

\* the n-th smallest element of the set of numbers S
Nth(S, n) == CHOOSE k \in S : Cardinality({j \in S : j <= k}) = n

RawBcs == DictGet(arg.analysis.obj, "business_categories", <<>>)

\* C3: the business-category list has exactly 5 entries, each non-empty one
\* has at most 2 tokens, no two non-empty ones are equal ignoring case, and
\* they are the first up to 5 unique valid entries of the input in
\* first-seen order, followed only by empty strings.
C3_BusinessCategories ==
    pc = "created" =>
        LET out == ret.clean_bcs
            kept == Min(5, Cardinality(FirstSeen(RawBcs)))
        IN  /\ Len(out) = 5
            /\ \A i \in 1..5 : Len(SplitWs(out[i])) <= 2
            /\ \A i, j \in 1..5 :
                  (i < j /\ out[i] # <<>>) => Lower(out[i]) # Lower(out[j])
            /\ \A i \in 1..5 :
                  out[i] = IF i <= kept
                           THEN TwoTokens(RawBcs[Nth(FirstSeen(RawBcs), i)])
                           ELSE <<>>

\* C3's case: an input of more than 5 unique valid entries, one of them
\* repeated in another case
C3_Witness ==
    /\ pc = "created"
    /\ Cardinality(FirstSeen(RawBcs)) > 5
    /\ \E i, j \in 1..Len(RawBcs) :
          /\ i < j
          /\ TwoTokens(RawBcs[i]) # TwoTokens(RawBcs[j])
          /\ Lower(TwoTokens(RawBcs[i])) = Lower(TwoTokens(RawBcs[j]))
    /\ ret.clean_bcs[5] # <<>>

\* C4: sanitizing the sanitized record again gives the same record.
C4_SanitizeIdempotent ==
    pc = "recreated" => Sanitized(again) = Sanitized(ret)

SanitizedNameC5 == <<"G", "l", "o", "b", "a", "l", " ", "R", "i", "s", "k", " ", "P", "r", "o", "g", "r", "a", "m", " ", "R", "o", "l", "l", "o", "u", "t", " ", "E", "x", "t", "e", "n", "d", "e", "d", " ", "N", "a", "m", "e">>

RawName == DictGet(arg.analysis.obj, "case_study_name", <<>>)

\* C5, as amended: the raw name "  (Global) Risk Program Rollout Extended
\* Name" has six tokens, all of which are kept: the sanitized name is
\* "Global Risk Program Rollout Extended Name".
C5_NameKeepsSixTokens ==
    (pc = "created" /\ RawName = RawNameC5)
        => ret.data["case_study_name"] = SanitizedNameC5

C5_Witness == pc = "created" /\ RawName = RawNameC5

\* C5, as claimed: that raw name is sanitized to "Global Risk Program
\* Rollout Extended".
C5_NameAsClaimed ==
    (pc = "created" /\ RawName = RawNameC5)
        => ret.data["case_study_name"]
               = <<"G", "l", "o", "b", "a", "l", " ", "R", "i", "s", "k", " ", "P", "r", "o", "g", "r", "a", "m", " ", "R", "o", "l", "l", "o", "u", "t", " ", "E", "x", "t", "e", "n", "d", "e", "d">>

\* where ". " occurs in text: an occurrence cannot overlap another one
DelimiterAt(text) == {k \in 1..Len(text) : MatchAt(text, DotSpace, k)}

\* what the claim gives for a field: with more than 4 segments, the first
\* 4 rejoined, which is the text before its 4th delimiter; stripped
Capped(text) ==
    IF Cardinality(DelimiterAt(text)) + 1 > 4
    THEN Strip(SubSeq(text, 1, Nth(DelimiterAt(text), 4) - 1))
    ELSE Strip(text)

\* C6: for challenge, solution and results, a value of more than 4
\* ". "-separated segments becomes its first 4 segments rejoined with ". "
\* and stripped; any other value is only stripped.
C6_SentenceCap ==
    pc = "created" =>
        \A f \in {"challenge", "solution", "results"} :
            LET text == DictGet(arg.analysis.obj, f, <<>>)
                segments == SplitOn(text, DotSpace)
            IN  /\ Len(segments) = Cardinality(DelimiterAt(text)) + 1
                /\ ret.data[f] = Capped(text)
                /\ Len(segments) > 4
                      => ret.data[f]
                             = Strip(Join(DotSpace, Take(segments, 4)))

\* C6's case: a challenge of more than 4 segments, which the cap shortens
C6_Witness ==
    /\ pc = "created"
    /\ Cardinality(DelimiterAt(arg.analysis.obj["challenge"])) > 3
    /\ ret.data["challenge"] # Strip(arg.analysis.obj["challenge"])

\* text with every placeholder of calls replaced by its value in one pass
\* from the left, from position k on: what is put in is not looked at again
RECURSIVE ReplacedAtOnce(_, _, _)
ReplacedAtOnce(text, calls, k) ==
    IF k > Len(text) THEN <<>>
    ELSE LET hits == {c \in 1..Len(calls) : MatchAt(text, calls[c][1], k)}
         IN  IF hits = {}
             THEN <<text[k]>> \o ReplacedAtOnce(text, calls, k + 1)
             ELSE LET c == Nth(hits, 1)
                  IN  calls[c][2]
                          \o ReplacedAtOnce(text, calls,
                                            k + Len(calls[c][1]))

\* C7: after the replacement, every run is its template text with each
\* placeholder replaced by the value of its field and nothing else changed:
\* an inserted value is not replaced again, and a run without placeholder
\* is as in the template.
C7_RunsReplacedOnce ==
    pc = "created" =>
        \A s \in DOMAIN ret.prs : \A h \in DOMAIN ret.prs[s] :
            \A r \in DOMAIN ret.prs[s][h].runs :
                ret.prs[s][h].runs[r]
                    = ReplacedAtOnce(arg.template[s][h].runs[r],
                                     PlaceholderCalls(ret), 1)

\* what a missing key is to be taken as, once sanitized
MissingAs(k) ==
    CASE k = "case_study_name" -> CaseStudy
      [] k = "hashtags" -> <<<<>>, <<>>, <<>>>>
      [] k = "business_categories" -> <<<<>>, <<>>, <<>>, <<>>, <<>>>>
      [] OTHER -> <<>>

\* C8: on a JSON object that lacks any of the 8 keys create_case_ppt raises
\* nothing, and each missing key counts as empty: the name becomes "Case
\* Study", the texts are empty, the two lists are all padding.
C8_MissingKeysNeverRaise ==
    arg.analysis.json =>
        /\ pc # "raised"
        /\ pc = "created" =>
              \A k \in Keys \ DOMAIN arg.analysis.obj :
                  Sanitized(ret)[k] = MissingAs(k)

\* C8's case: the object with no key at all has been processed
C8_Witness ==
    /\ pc = "created"
    /\ arg.analysis.json
    /\ DOMAIN arg.analysis.obj = {}
    /\ ret.prs[1][1].runs[1] = CaseStudy

\* C9: the folder save_extracted made for a file is gone once the
\* processing of that file has ended, by its archive or by a failure: a
\* folder exists only for the file the loop is at.
C9_WorkingDirReclaimed ==
    \A case_name \in DOMAIN disk.folders :
        /\ pc \in {"analyze", "create", "zip"}
        /\ case_name = CaseName(CurrentFile.name)

\* C10: files share nothing: an archive holds exactly the four artifacts of
\* the processing that made it (the generated deck, raw.json, parsed.csv
\* and the original), whatever was processed before.
C10_ArchiveOfOneProcessing ==
    \A k \in 1..Len(ui) :
        ui[k].kind = "download" =>
            LET file == uploaded_files[ui[k].file]
                original == <<"O", "r", "i", "g", "i", "n", "a", "l", " ", "-", " ">> \o file.name
                made == IF k = Len(ui) - 1 THEN {out_ppt} ELSE {}
            IN  /\ Cardinality(DOMAIN ui[k].data) = 4
                /\ {<<"r", "a", "w", ".", "j", "s", "o", "n">>, <<"p", "a", "r", "s", "e", "d", ".", "c", "s", "v">>, original} \cup made
                       \subseteq DOMAIN ui[k].data
                /\ ui[k].data[<<"r", "a", "w", ".", "j", "s", "o", "n">>].text
                       = ExtractTextFromPpt(file.slides)
                /\ ui[k].data[original] = file.slides

====
